---------------------------- MODULE Spec2Model ----------------------------
(***************************************************************************)
(* tiny-linux-usb: the USB descriptor parser (src/descriptor.rs) and the   *)
(* descriptor cache / endpoint claim of the device handle (src/lib.rs).    *)
(*                                                                         *)
(* Bytes are naturals 0..255 and a buffer is a sequence of bytes.  The     *)
(* packed structs are decoded field by field at the offsets their          *)
(* #[repr(C, packed)] layout fixes; u16 fields are read in the byte order  *)
(* of the host, which is little-endian on the targets Linux usbfs runs on. *)
(***************************************************************************)
EXTENDS Naturals, Sequences, FiniteSets

VARIABLES
    buffer,            \* the argument of DeviceTree::from_byte_array
    data,              \* byte_array_to_descriptors: the `mut data` slice (the cursor)
    result,            \* byte_array_to_descriptors: the `result` vector
    iters,             \* number of loop iterations begun (instrumentation)
    pc,                \* "scan" while the loop runs, "done" after from_byte_array returned
    ret,               \* what from_byte_array returned ([tag |-> "Pending"] until then)
    gen,               \* how the input buffer was built (instrumentation)
    file,              \* content of the usbfs device file behind the handle
    descriptor_cache,  \* UsbDevice.descriptor_cache : OnceCell<DeviceTree>
    fd_open,           \* whether UsbDevice.fd still names the open device file
    reads,             \* number of reads of the device file begun (instrumentation)
    parses,            \* number of from_byte_array calls made (instrumentation)
    ncalls,            \* number of public calls made on the handle (bounded)
    last               \* the last public call: its name, argument, result, ioctls issued

vars == <<buffer, data, result, iters, pc, ret, gen,
          file, descriptor_cache, fd_open, reads, parses, ncalls, last>>

parserVars == <<buffer, data, result, iters, pc, ret, gen>>
deviceVars == <<file, descriptor_cache, fd_open, reads, parses, ncalls, last>>

-----------------------------------------------------------------------------
(* Fixed sizes of the packed structs (the check_size! assertions).         *)

SIZE_DEVICE == 18
SIZE_CONFIGURATION == 9
SIZE_INTERFACE == 9
SIZE_ENDPOINT == 7

(* Type tags dispatched on in byte_array_to_descriptors.                   *)
TAG_DEVICE == 1
TAG_CONFIGURATION == 2
TAG_INTERFACE == 4
TAG_ENDPOINT == 5

DescriptorTypes ==
    {"DeviceDescriptor", "ConfigurationDescriptor",
     "InterfaceDescriptor", "EndpointDescriptor"}

SizeOf(T) ==
    CASE T = "DeviceDescriptor" -> SIZE_DEVICE
      [] T = "ConfigurationDescriptor" -> SIZE_CONFIGURATION
      [] T = "InterfaceDescriptor" -> SIZE_INTERFACE
      [] T = "EndpointDescriptor" -> SIZE_ENDPOINT

(* Mutant: the two bytes of a u16 taken high byte first.                   *)
ReadU16_BigEndian(d, p) == 256 * d[p] + d[p + 1]

(* A u16 field of a packed struct, read from the two bytes at 1-based      *)
(* position p (host byte order: low byte first).                           *)
ReadU16(d, p) == d[p] + 256 * d[p + 1]

(* std::ptr::read(data.as_ptr() as *const T): the struct's fields, each    *)
(* from its offset in the packed layout; bytes past size_of::<T>() are not *)
(* read.                                                                   *)
ReadStruct(T, d) ==
    CASE T = "DeviceDescriptor" ->
            [bLength |-> d[1], bDescriptorType |-> d[2], bcdUSB |-> ReadU16(d, 3),
             bDeviceClass |-> d[5], bDeviceSubClass |-> d[6],
             bDeviceProtocol |-> d[7], bMaxPacketSize0 |-> d[8],
             idVendor |-> ReadU16(d, 9), idProduct |-> ReadU16(d, 11),
             bcdDevice |-> ReadU16(d, 13), iManufacturer |-> d[15],
             iProduct |-> d[16], iSerialNumber |-> d[17],
             bNumConfigurations |-> d[18]]
      [] T = "ConfigurationDescriptor" ->
            [bLength |-> d[1], bDescriptorType |-> d[2],
             wTotalLength |-> ReadU16(d, 3), bNumInterfaces |-> d[5],
             bConfigurationValue |-> d[6], iConfiguration |-> d[7],
             bmAttributes |-> d[8], MaxPower |-> d[9]]
      [] T = "InterfaceDescriptor" ->
            [bLength |-> d[1], bDescriptorType |-> d[2],
             bInterfaceNumber |-> d[3], bAlternateSetting |-> d[4],
             bNumEndpoints |-> d[5], bInterfaceClass |-> d[6],
             bInterfaceSubClass |-> d[7], bInterfaceProtocol |-> d[8],
             iInterface |-> d[9]]
      [] T = "EndpointDescriptor" ->
            [bLength |-> d[1], bDescriptorType |-> d[2],
             bEndpointAddress |-> d[3], bmAttributes |-> d[4],
             wMaxPacketSize |-> ReadU16(d, 5), bInterval |-> d[7]]

Err(e) == [tag |-> "Err", err |-> e]
Ok(v) == [tag |-> "Ok", v |-> v]
Pending == [tag |-> "Pending"]

(* parse_descriptor::<T>(data)                                             *)
parse_descriptor(T, d) ==
    IF Len(d) < SizeOf(T)
    THEN Err("InvalidSize")
    ELSE Ok(ReadStruct(T, d))

(* enum AnyDescriptor: one variant per known struct, and Other(u8).        *)
AnyDescriptor(T, v) == [kind |-> T, v |-> v]

(* The tag dispatch of the match in byte_array_to_descriptors.             *)
TypeOfTag(tag) ==
    CASE tag = TAG_DEVICE -> "DeviceDescriptor"
      [] tag = TAG_CONFIGURATION -> "ConfigurationDescriptor"
      [] tag = TAG_INTERFACE -> "InterfaceDescriptor"
      [] tag = TAG_ENDPOINT -> "EndpointDescriptor"
      [] OTHER -> "Other"

(* Mutant: a record that exactly fills the remaining bytes is rejected.    *)
BadLength_RejectsExactFit(l, remaining) == l < 2 \/ l >= remaining

(* The length test at the head of the loop body.                           *)
BadLength(l, remaining) == l < 2 \/ l > remaining

(* The record slice the loop body cuts: &data[..l].                        *)
RecordSlice(d, l) == SubSeq(d, 1, l)

(* Mutant: the cursor moves one byte short of the record's end.            *)
Advance_OneShort(d, l) == SubSeq(d, l, Len(d))

(* The cursor after one record: &data[l..].                                *)
Advance(d, l) == SubSeq(d, l + 1, Len(d))

(* One iteration of the while loop of byte_array_to_descriptors, entered   *)
(* with data.len() >= 2.  Err(InvalidSize) on a bad length or a record     *)
(* shorter than its struct, else the new cursor and result.                *)
ScanBody(d, res) ==
    LET l == d[1] IN
    IF BadLength(l, Len(d))
    THEN Err("InvalidSize")
    ELSE LET descriptor_data == RecordSlice(d, l)
             T == TypeOfTag(descriptor_data[2])
         IN  IF T = "Other"
             THEN Ok([data |-> Advance(d, l),
                      result |-> Append(res, AnyDescriptor("Other", descriptor_data[2]))])
             ELSE LET p == parse_descriptor(T, descriptor_data) IN
                  IF p.tag = "Err"
                  THEN p
                  ELSE Ok([data |-> Advance(d, l),
                           result |-> Append(res, AnyDescriptor(T, p.v))])

(* The loop condition: while data.len() >= 2.                              *)
LoopCondition(d) == Len(d) >= 2

RECURSIVE ScanLoop(_, _)
ScanLoop(d, res) ==
    IF LoopCondition(d)
    THEN LET s == ScanBody(d, res) IN
         IF s.tag = "Err" THEN s ELSE ScanLoop(s.v.data, s.v.result)
    ELSE Ok(res)

(* byte_array_to_descriptors(data), run to completion.                     *)
byte_array_to_descriptors(d) == ScanLoop(d, <<>>)

-----------------------------------------------------------------------------
(* Grouping and tree building.                                             *)

(* <&T as TryFrom<&AnyDescriptor>>::try_from(d).ok() is Some.              *)
TryInto(T, d) == d.kind = T

(* The split_points of split_by_parent_desc: the (1-based) positions of    *)
(* the descriptors of variant T, ascending.                                *)
SplitPoints(T, descriptors) ==
    SelectSeq([i \in 1..Len(descriptors) |-> i],
              LAMBDA i : TryInto(T, descriptors[i]))

(* Mutant: the first slice starts at the head of the sequence, not at the  *)
(* first marker.                                                           *)
SplitSlice_FromHead(descriptors, sp, spi) ==
    SubSeq(descriptors,
           IF spi = 1 THEN 1 ELSE sp[spi],
           IF spi < Len(sp) THEN sp[spi + 1] - 1 ELSE Len(descriptors))

(* The slice pushed for split point number spi.                            *)
SplitSlice(descriptors, sp, spi) ==
    IF spi < Len(sp)
    THEN SubSeq(descriptors, sp[spi], sp[spi + 1] - 1)
    ELSE SubSeq(descriptors, sp[spi], Len(descriptors))

(* split_by_parent_desc::<T>(descriptors): one (marker, slice) pair per    *)
(* split point, the slice starting at the marker itself.                   *)
split_by_parent_desc(T, descriptors) ==
    LET sp == SplitPoints(T, descriptors) IN
    [spi \in 1..Len(sp) |->
        [d |-> descriptors[sp[spi]].v, ds |-> SplitSlice(descriptors, sp, spi)]]

(* Mutant: the endpoint list ends at the first record after the marker     *)
(* that is not an Endpoint record.                                         *)
RECURSIVE LeadingEndpoints(_)
LeadingEndpoints(descriptors) ==
    IF descriptors = <<>> \/ Head(descriptors).kind # "EndpointDescriptor"
    THEN <<>>
    ELSE <<Head(descriptors).v>> \o LeadingEndpoints(Tail(descriptors))

EndpointsOf_UntilOther(descriptors) == LeadingEndpoints(Tail(descriptors))

(* The filter_map of InterfaceTree::from_descriptors.                      *)
EndpointsOf(descriptors) ==
    LET eps == SelectSeq(descriptors, LAMBDA d : TryInto("EndpointDescriptor", d))
    IN  [i \in 1..Len(eps) |-> eps[i].v]

(* InterfaceTree::from_descriptors (its Result is always Ok).              *)
InterfaceTree_from_descriptors(desc, descriptors) ==
    [desc |-> desc, endpoints |-> EndpointsOf(descriptors)]

(* ConfigurationTree::from_descriptors (its Result is always Ok).          *)
ConfigurationTree_from_descriptors(desc, descriptors) ==
    LET parts == split_by_parent_desc("InterfaceDescriptor", descriptors) IN
    [desc |-> desc,
     interfaces |-> [i \in 1..Len(parts) |->
                        InterfaceTree_from_descriptors(parts[i].d, parts[i].ds)]]

(* Mutant: every descriptor is counted, not only the Device ones.          *)
DeviceCount_Unfiltered(descriptors) == Len(descriptors)

(* The count of Device descriptors tested against 1.                       *)
DeviceCount(descriptors) ==
    Len(SelectSeq(descriptors, LAMBDA d : d.kind = "DeviceDescriptor"))

(* The Ok(Self { desc, configurations }) that ends from_byte_array.        *)
BuildDeviceTree(descriptors) ==
    LET parts == split_by_parent_desc("ConfigurationDescriptor", descriptors) IN
    Ok([desc |-> descriptors[1].v,
        configurations |-> [i \in 1..Len(parts) |->
            ConfigurationTree_from_descriptors(parts[i].d, parts[i].ds)]])

(* Mutant: the first record is tested before the Device records are        *)
(* counted.                                                                *)
DeviceTree_from_descriptors_FirstTestedFirst(descriptors) ==
    IF descriptors = <<>>
    THEN Err("InvalidSize")
    ELSE IF descriptors[1].kind # "DeviceDescriptor"
    THEN Err("DeviceWasNotFirst")
    ELSE IF DeviceCount(descriptors) > 1
    THEN Err("TooManyDevices")
    ELSE BuildDeviceTree(descriptors)

(* Mutant: an empty sequence is reported as a missing Device record.       *)
DeviceTree_from_descriptors_EmptyNotFirst(descriptors) ==
    IF descriptors = <<>>
    THEN Err("DeviceWasNotFirst")
    ELSE IF DeviceCount(descriptors) > 1
    THEN Err("TooManyDevices")
    ELSE IF descriptors[1].kind # "DeviceDescriptor"
    THEN Err("DeviceWasNotFirst")
    ELSE BuildDeviceTree(descriptors)

(* The part of DeviceTree::from_byte_array after the scan returned Ok.     *)
DeviceTree_from_descriptors(descriptors) ==
    IF descriptors = <<>>
    THEN Err("InvalidSize")
    ELSE IF DeviceCount(descriptors) > 1
    THEN Err("TooManyDevices")
    ELSE IF descriptors[1].kind # "DeviceDescriptor"
    THEN Err("DeviceWasNotFirst")
    ELSE BuildDeviceTree(descriptors)

(* DeviceTree::from_byte_array(data), run to completion.                   *)
DeviceTree_from_byte_array(d) ==
    LET s == byte_array_to_descriptors(d) IN
    IF s.tag = "Err" THEN s ELSE DeviceTree_from_descriptors(s.v)

-----------------------------------------------------------------------------
(* The device handle (src/lib.rs).                                         *)

None == [tag |-> "None"]
Some(v) == [tag |-> "Some", v |-> v]

(* The outcomes of the two I/O calls of descriptors(): rewind() fails,     *)
(* read_to_end() fails, or both succeed.                                   *)
IoOutcomes == {"rewind_err", "read_err", "ok"}

(* The errnos an ioctl may come back with, and 0 for success.              *)
Errnos == {"0", "ENODEV", "ENOENT", "EBUSY"}

(* impl From<nix::errno::Errno> for Error                                  *)
ErrorFromErrno(e) ==
    CASE e = "ENODEV" -> "DeviceDisconnected"
      [] e = "ENOENT" -> "InvalidEndpoint"
      [] OTHER -> "IoctlError"

(* Mutant: the cache is not consulted; every call reads and parses, and a  *)
(* tree just parsed replaces the stored one.                               *)
DescriptorsCall_NoCacheTest(cache, fdopen, io, content) ==
    IF io = "rewind_err"
    THEN [ret |-> Err("IoError"), cache |-> cache, fd_open |-> FALSE,
          read |-> 0, parsed |-> 0, cached |-> FALSE]
    ELSE IF io = "read_err"
    THEN [ret |-> Err("IoError"), cache |-> cache, fd_open |-> FALSE,
          read |-> 1, parsed |-> 0, cached |-> FALSE]
    ELSE LET t == DeviceTree_from_byte_array(content) IN
         IF t.tag = "Err"
         THEN [ret |-> Err(<<"DescriptorError", t.err>>), cache |-> cache,
               fd_open |-> fdopen, read |-> 1, parsed |-> 1, cached |-> FALSE]
         ELSE [ret |-> Ok(t.v), cache |-> Some(t.v),
               fd_open |-> fdopen, read |-> 1, parsed |-> 1, cached |-> FALSE]

(* UsbDevice::descriptors(): what it returns and what it leaves behind,    *)
(* given the cache, the outcome of its I/O and the bytes the read yields.  *)
(* An early return through `?` on rewind() or read_to_end() drops          *)
(* fd_as_file before mem::forget is reached, which closes the descriptor;  *)
(* a failed parse returns after mem::forget and stores nothing.            *)
DescriptorsCall(cache, fdopen, io, content) ==
    IF cache.tag = "Some"
    THEN [ret |-> Ok(cache.v), cache |-> cache, fd_open |-> fdopen,
          read |-> 0, parsed |-> 0, cached |-> TRUE]
    ELSE IF io = "rewind_err"
    THEN [ret |-> Err("IoError"), cache |-> cache, fd_open |-> FALSE,
          read |-> 0, parsed |-> 0, cached |-> FALSE]
    ELSE IF io = "read_err"
    THEN [ret |-> Err("IoError"), cache |-> cache, fd_open |-> FALSE,
          read |-> 1, parsed |-> 0, cached |-> FALSE]
    ELSE LET t == DeviceTree_from_byte_array(content) IN
         IF t.tag = "Err"
         THEN [ret |-> Err(<<"DescriptorError", t.err>>), cache |-> cache,
               fd_open |-> fdopen, read |-> 1, parsed |-> 1, cached |-> FALSE]
         ELSE [ret |-> Ok(t.v), cache |-> Some(t.v),
               fd_open |-> fdopen, read |-> 1, parsed |-> 1, cached |-> FALSE]

(* UsbDevice::claim_interface(interface): the driver-disconnect ioctl,     *)
(* whose result is ignored, then the claim ioctl, whose errno is returned. *)
ClaimInterfaceCall(interface, errno) ==
    [ioctls |-> <<[code |-> "USBDEVFS_IOCTL(DISCONNECT)", ifno |-> interface],
                  [code |-> "USBDEVFS_CLAIMINTERFACE", ifno |-> interface]>>,
     ret |-> IF errno = "0" THEN Ok(<<>>) ELSE Err(ErrorFromErrno(errno))]

(* Whether an interface lists an endpoint with this address.               *)
HasEndpoint(interface, endpoint_address) ==
    \E e \in 1..Len(interface.endpoints) :
        interface.endpoints[e].bEndpointAddress = endpoint_address

(* Mutant: the search does not stop at the first match (no break 'outer),  *)
(* so the last matching interface wins.                                    *)
interface_to_claim_LastMatch(interfaces, endpoint_address) ==
    LET hits == {i \in 1..Len(interfaces) : HasEndpoint(interfaces[i], endpoint_address)}
    IN  IF hits = {} THEN None
        ELSE Some(interfaces[CHOOSE i \in hits : \A j \in hits : j <= i]
                     .desc.bInterfaceNumber)

(* The 'outer loop of claim_endpoint over the interfaces of one            *)
(* configuration: the number of the first interface, in order, that lists  *)
(* an endpoint with the address.                                           *)
interface_to_claim(interfaces, endpoint_address) ==
    LET hits == {i \in 1..Len(interfaces) : HasEndpoint(interfaces[i], endpoint_address)}
    IN  IF hits = {} THEN None
        ELSE Some(interfaces[CHOOSE i \in hits : \A j \in hits : i <= j]
                     .desc.bInterfaceNumber)

(* UsbDevice::claim_endpoint(endpoint_address), after descriptors()        *)
(* returned Ok(tree): only configurations.get(0) is searched.              *)
ClaimEndpointCall(tree, endpoint_address, errno) ==
    IF Len(tree.configurations) = 0
    THEN [ioctls |-> <<>>, ret |-> Err("InvalidEndpoint")]
    ELSE LET found == interface_to_claim(tree.configurations[1].interfaces,
                                         endpoint_address)
         IN  IF found.tag = "Some"
             THEN ClaimInterfaceCall(found.v, errno)
             ELSE [ioctls |-> <<>>, ret |-> Err("InvalidEndpoint")]

-----------------------------------------------------------------------------
(* Input buffers.  Records are written field by field, the way a device    *)
(* lays them out on the wire: u16 fields low byte first.                   *)

MaxN == 2          \* configurations of a well-formed buffer
MaxM == 2          \* interfaces per configuration of a well-formed buffer
MaxK == 2          \* endpoints per interface of a well-formed buffer
MaxTail == 5       \* records after the Device record of a mixed buffer
MaxChunks == 3     \* chunks of an arbitrary buffer

U16LE(x) == <<x % 256, x \div 256>>

RECURSIVE Flatten(_)
Flatten(ss) == IF ss = <<>> THEN <<>> ELSE Head(ss) \o Flatten(Tail(ss))

DeviceFields(nconf) ==
    [bLength |-> 18, bDescriptorType |-> 1, bcdUSB |-> 512,
     bDeviceClass |-> 239, bDeviceSubClass |-> 2, bDeviceProtocol |-> 1,
     bMaxPacketSize0 |-> 64, idVendor |-> 1158, idProduct |-> 22332,
     bcdDevice |-> 257, iManufacturer |-> 1, iProduct |-> 2,
     iSerialNumber |-> 3, bNumConfigurations |-> nconf]

ConfigurationFields(value, nif, total) ==
    [bLength |-> 9, bDescriptorType |-> 2, wTotalLength |-> total,
     bNumInterfaces |-> nif, bConfigurationValue |-> value,
     iConfiguration |-> 4, bmAttributes |-> 128, MaxPower |-> 50]

InterfaceFields(number, nep) ==
    [bLength |-> 9, bDescriptorType |-> 4, bInterfaceNumber |-> number,
     bAlternateSetting |-> 0, bNumEndpoints |-> nep, bInterfaceClass |-> 255,
     bInterfaceSubClass |-> 6, bInterfaceProtocol |-> 7, iInterface |-> 5]

EndpointFields(address) ==
    [bLength |-> 7, bDescriptorType |-> 5, bEndpointAddress |-> address,
     bmAttributes |-> 2, wMaxPacketSize |-> 512, bInterval |-> 9]

EncodeDevice(f) ==
    <<f.bLength, f.bDescriptorType>> \o U16LE(f.bcdUSB)
    \o <<f.bDeviceClass, f.bDeviceSubClass, f.bDeviceProtocol, f.bMaxPacketSize0>>
    \o U16LE(f.idVendor) \o U16LE(f.idProduct) \o U16LE(f.bcdDevice)
    \o <<f.iManufacturer, f.iProduct, f.iSerialNumber, f.bNumConfigurations>>

EncodeConfiguration(f) ==
    <<f.bLength, f.bDescriptorType>> \o U16LE(f.wTotalLength)
    \o <<f.bNumInterfaces, f.bConfigurationValue, f.iConfiguration,
         f.bmAttributes, f.MaxPower>>

EncodeInterface(f) ==
    <<f.bLength, f.bDescriptorType, f.bInterfaceNumber, f.bAlternateSetting,
      f.bNumEndpoints, f.bInterfaceClass, f.bInterfaceSubClass,
      f.bInterfaceProtocol, f.iInterface>>

EncodeEndpoint(f) ==
    <<f.bLength, f.bDescriptorType, f.bEndpointAddress, f.bmAttributes>>
    \o U16LE(f.wMaxPacketSize) \o <<f.bInterval>>

(* Well-formed buffers: one Device, n Configuration blocks, each with m    *)
(* Interface blocks, each with k Endpoint records.  Every record carries   *)
(* its place in an identifying field.                                      *)
WfTotalLength(m, k) == 9 + m * (9 + 7 * k)
WfConfiguration(c, m, k) == ConfigurationFields(c, m, WfTotalLength(m, k))
WfInterface(c, i, m, k) == InterfaceFields((c - 1) * m + (i - 1), k)
WfEndpoint(c, i, e, m, k) == EndpointFields(128 + ((c - 1) * m + (i - 1)) * k + e)

WfInterfaceBlock(c, i, m, k) ==
    EncodeInterface(WfInterface(c, i, m, k))
    \o Flatten([e \in 1..k |-> EncodeEndpoint(WfEndpoint(c, i, e, m, k))])

WfConfigurationBlock(c, m, k) ==
    EncodeConfiguration(WfConfiguration(c, m, k))
    \o Flatten([i \in 1..m |-> WfInterfaceBlock(c, i, m, k)])

WellFormed(n, m, k) ==
    EncodeDevice(DeviceFields(n))
    \o Flatten([c \in 1..n |-> WfConfigurationBlock(c, m, k)])

(* Mixed buffers: a Device record followed by up to MaxTail valid records  *)
(* in any order; the record at place j carries j.  "O" is a class-specific *)
(* record with an unrecognized tag, "L" an Endpoint record with two extra  *)
(* trailing bytes (an audio endpoint).                                     *)
TailKinds == {"C", "I", "E", "O", "L"}

TailRecord(kind, j) ==
    CASE kind = "C" -> EncodeConfiguration(ConfigurationFields(j, 1, 9))
      [] kind = "I" -> EncodeInterface(InterfaceFields(j, 1))
      [] kind = "E" -> EncodeEndpoint(EndpointFields(128 + j))
      [] kind = "O" -> <<3, 36, j>>
      [] kind = "L" -> <<9, 5, j, 1>> \o U16LE(192) \o <<1, 170, 187>>

SeqsUpTo(S, n) == UNION {[1..len -> S] : len \in 0..n}

Mixed(kinds) ==
    EncodeDevice(DeviceFields(1))
    \o Flatten([j \in 1..Len(kinds) |-> TailRecord(kinds[j], j)])

(* Arbitrary buffers: up to MaxChunks chunks, well-formed records and      *)
(* malformed ones (too short for their tag, a length below 2, a length     *)
(* past the end, a lone byte).                                             *)
ChunkSet ==
    {EncodeDevice(DeviceFields(1)),
     EncodeConfiguration(ConfigurationFields(1, 1, 25)),
     EncodeInterface(InterfaceFields(0, 1)),
     EncodeEndpoint(EndpointFields(129)),
     <<17, 1, 0, 2, 0, 0, 0, 64, 134, 4, 60, 87, 1, 1, 1, 2, 3>>,
     <<8, 2, 25, 0, 1, 1, 0, 128>>,
     <<8, 4, 0, 0, 1, 255, 0, 0>>,
     <<6, 5, 129, 2, 0, 2>>,
     <<10, 2, 25, 0, 1, 1, 0, 128, 50, 99>>,
     <<2, 36>>,
     <<4, 11, 7, 7>>,
     <<1, 5>>,
     <<0, 0>>,
     <<9, 2>>,
     <<20, 33>>,
     <<7>>}

Arbitrary(chunks) == Flatten(chunks)

(* Buffers of fewer than two bytes, every byte value.                      *)
ShortBuffers == {<<>>} \cup {<<b>> : b \in 0..255}

-----------------------------------------------------------------------------
(* Specification of the parser: DeviceTree::from_byte_array on one buffer, *)
(* the scan loop taken one iteration at a time.                            *)

NoHandle ==
    /\ file = <<>>
    /\ descriptor_cache = [tag |-> "None"]
    /\ fd_open = TRUE
    /\ reads = 0
    /\ parses = 0
    /\ ncalls = 0
    /\ last = [op |-> "none"]

Init ==
    /\ \/ \E n \in 0..MaxN, m \in 0..MaxM, k \in 0..MaxK :
             /\ gen = [family |-> "wf", n |-> n, m |-> m, k |-> k]
             /\ buffer = WellFormed(n, m, k)
       \/ \E kinds \in SeqsUpTo(TailKinds, MaxTail) :
             /\ gen = [family |-> "mixed", kinds |-> kinds]
             /\ buffer = Mixed(kinds)
       \/ \E chunks \in SeqsUpTo(ChunkSet, MaxChunks) :
             /\ gen = [family |-> "arbitrary"]
             /\ buffer = Arbitrary(chunks)
       \/ \E b \in ShortBuffers :
             /\ gen = [family |-> "short"]
             /\ buffer = b
    /\ data = buffer
    /\ result = <<>>
    /\ iters = 0
    /\ pc = "scan"
    /\ ret = Pending
    /\ NoHandle

(* One iteration of the while loop of byte_array_to_descriptors; an Err    *)
(* leaves the function, and from_byte_array with it, through `?`.          *)
ScanIteration ==
    /\ pc = "scan"
    /\ LoopCondition(data)
    /\ iters' = iters + 1
    /\ LET s == ScanBody(data, result) IN
       IF s.tag = "Err"
       THEN /\ pc' = "done"
            /\ ret' = s
            /\ UNCHANGED <<data, result>>
       ELSE /\ data' = s.v.data
            /\ result' = s.v.result
            /\ UNCHANGED <<pc, ret>>
    /\ UNCHANGED <<buffer, gen>>
    /\ UNCHANGED deviceVars

(* The loop ends, byte_array_to_descriptors returns Ok(result) and         *)
(* from_byte_array runs its checks and builds the tree.                    *)
FromByteArrayReturn ==
    /\ pc = "scan"
    /\ ~LoopCondition(data)
    /\ pc' = "done"
    /\ ret' = DeviceTree_from_descriptors(result)
    /\ UNCHANGED <<buffer, data, result, iters, gen>>
    /\ UNCHANGED deviceVars

Next == ScanIteration \/ FromByteArrayReturn

Spec == Init /\ [][Next]_vars

-----------------------------------------------------------------------------
(* What the claims speak of, stated on the input buffer alone.             *)

(* The records of a buffer by framing alone: from offset 0, each record is *)
(* as long as its first byte says; the walk stops where fewer than two     *)
(* bytes remain or the length byte is below 2 or past the end.             *)
RECURSIVE Records(_)
Records(b) ==
    IF Len(b) < 2 \/ b[1] < 2 \/ b[1] > Len(b)
    THEN <<>>
    ELSE <<SubSeq(b, 1, b[1])>> \o Records(SubSeq(b, b[1] + 1, Len(b)))

(* The bytes the walk above leaves behind.                                 *)
RECURSIVE Leftover(_)
Leftover(b) ==
    IF Len(b) < 2 \/ b[1] < 2 \/ b[1] > Len(b)
    THEN b
    ELSE Leftover(SubSeq(b, b[1] + 1, Len(b)))

(* The least length a record with this tag may declare.                    *)
MinLength(tag) ==
    CASE tag = 1 -> 18
      [] tag = 2 -> 9
      [] tag = 4 -> 9
      [] tag = 5 -> 7
      [] OTHER -> 2

(* Every record of the buffer is well formed: the framing consumes the     *)
(* buffer up to at most one trailing byte, and no record is shorter than   *)
(* its tag demands.                                                        *)
Scannable(b) ==
    /\ Len(Leftover(b)) < 2
    /\ \A i \in 1..Len(Records(b)) : Len(Records(b)[i]) >= MinLength(Records(b)[i][2])

(* The number of Device records (tag 1, at least 18 bytes) of the buffer.  *)
DeviceRecords(b) ==
    Cardinality({i \in 1..Len(Records(b)) :
                    Records(b)[i][2] = 1 /\ Len(Records(b)[i]) >= 18})

Done == pc = "done"
Returned(e) == ret.tag = "Err" /\ ret.err = e
Succeeded == pc = "done" /\ ret.tag = "Ok"

KindAt(i) == result[i].kind

-----------------------------------------------------------------------------
(* The tree of the fields a well-formed buffer was written from.           *)
ExpectedTree(n, m, k) ==
    [desc |-> DeviceFields(n),
     configurations |-> [c \in 1..n |->
        [desc |-> WfConfiguration(c, m, k),
         interfaces |-> [i \in 1..m |->
            [desc |-> WfInterface(c, i, m, k),
             endpoints |-> [e \in 1..k |-> WfEndpoint(c, i, e, m, k)]]]]]]

(* C1: a well-formed buffer (one Device, n Configuration blocks of m       *)
(* Interface blocks of k Endpoint records) parses to a tree with exactly   *)
(* n configurations, m interfaces in each and k endpoints in each of       *)
(* those, every node holding the fields its record was written from, in    *)
(* the order of the records.                                               *)
C1_WellFormedRoundTrip ==
    (Done /\ gen.family = "wf") =>
        /\ ret.tag = "Ok"
        /\ Len(ret.v.configurations) = gen.n
        /\ \A c \in 1..gen.n :
              /\ Len(ret.v.configurations[c].interfaces) = gen.m
              /\ \A i \in 1..gen.m :
                    Len(ret.v.configurations[c].interfaces[i].endpoints) = gen.k
        /\ ret.v = ExpectedTree(gen.n, gen.m, gen.k)

C1_Witness ==
    /\ Succeeded
    /\ gen.family = "wf" /\ gen.n = 2 /\ gen.m = 2 /\ gen.k = 2
    /\ ret.v.configurations[2].interfaces[2].endpoints[2].bEndpointAddress = 136

(* A record the scan must reject: its length byte against the remaining    *)
(* bytes and the fixed size its tag demands.                               *)
C2_Rejected(l, tag, remaining) ==
    \/ l < 2
    \/ l > remaining
    \/ tag = 1 /\ l < 18
    \/ tag = 2 /\ l < 9
    \/ tag = 4 /\ l < 9
    \/ tag = 5 /\ l < 7

(* The descriptor an accepted record becomes.                              *)
C2_Accepted(tag, rec) ==
    CASE tag = 1 -> AnyDescriptor("DeviceDescriptor",
                        ReadStruct("DeviceDescriptor", SubSeq(rec, 1, 18)))
      [] tag = 2 -> AnyDescriptor("ConfigurationDescriptor",
                        ReadStruct("ConfigurationDescriptor", SubSeq(rec, 1, 9)))
      [] tag = 4 -> AnyDescriptor("InterfaceDescriptor",
                        ReadStruct("InterfaceDescriptor", SubSeq(rec, 1, 9)))
      [] tag = 5 -> AnyDescriptor("EndpointDescriptor",
                        ReadStruct("EndpointDescriptor", SubSeq(rec, 1, 7)))
      [] OTHER -> AnyDescriptor("Other", tag)

(* What one step of the scan may do to a record.                           *)
C2_Step ==
    (pc = "scan" /\ Len(data) >= 2) =>
        IF C2_Rejected(data[1], data[2], Len(data))
        THEN pc' = "done" /\ ret'.tag = "Err" /\ ret'.err = "InvalidSize"
        ELSE /\ pc' = "scan"
             /\ ret' = Pending
             /\ data' = SubSeq(data, data[1] + 1, Len(data))
             /\ result' = Append(result, C2_Accepted(data[2], SubSeq(data, 1, data[1])))

(* C2: an iteration of the scan that finds a length byte l below 2, or     *)
(* past the remaining bytes, or below the fixed size of the struct its tag *)
(* selects (18, 9, 9, 7 for tags 1, 2, 4, 5) ends the parse with           *)
(* InvalidSize and no tree; any other record is accepted: one descriptor   *)
(* is pushed, of the variant the tag selects, decoded from the first       *)
(* fixed-size bytes only, and the cursor moves past the record.            *)
C2_InvalidSize == [][C2_Step]_vars

C2_Witness ==
    /\ Done /\ Returned("InvalidSize")
    /\ Len(result) >= 1
    /\ result[Len(result)].kind = "ConfigurationDescriptor"
    /\ result[Len(result)].v.bLength > 9
    /\ Len(data) >= 2 /\ data[1] >= 2 /\ data[1] <= Len(data)
    /\ data[2] = 2 /\ data[1] < 9

(* What one step taken while scanning may do to the cursor and the count   *)
(* of iterations.                                                          *)
C7_Step ==
    pc = "scan" =>
        /\ \/ /\ Len(data) >= 2
              /\ iters' = iters + 1
              /\ pc' = "done" /\ ret'.tag = "Err" /\ ret'.err = "InvalidSize"
           \/ /\ Len(data) >= 2
              /\ iters' = iters + 1
              /\ pc' = "scan"
              /\ data[1] >= 2 /\ data[1] <= Len(data)
              /\ Len(data') = Len(data) - data[1]
              /\ data' = SubSeq(buffer, Len(buffer) - Len(data') + 1, Len(buffer))
           \/ /\ Len(data) < 2
              /\ iters' = iters
              /\ pc' = "done"
        /\ 2 * iters' <= Len(buffer)

(* C7: the scan terminates: an iteration either ends the parse with        *)
(* InvalidSize or moves the cursor forward by the record length l,         *)
(* 2 <= l <= remaining; with fewer than two bytes left no iteration runs   *)
(* and the loop is left; the iterations number at most n/2 for a buffer of *)
(* n bytes.                                                                *)
C7_ScanTerminates == [][C7_Step]_vars

C7_Witness == Done /\ iters = 3 /\ Len(buffer) = 6 /\ Len(result) = 3

(* C9: a buffer of length 0 or 1, whatever its byte, yields InvalidSize:   *)
(* the scan runs no iteration and yields no record.                        *)
C9_ShortBuffer ==
    (Done /\ Len(buffer) <= 1) =>
        Returned("InvalidSize") /\ result = <<>> /\ iters = 0

C9_Witness == Done /\ Len(buffer) = 1 /\ buffer[1] = 18 /\ Returned("InvalidSize")

(* C3 as stated: every buffer holding two Device records yields            *)
(* TooManyDevices, whatever its other records are.                         *)
C3_AsStated ==
    (Done /\ DeviceRecords(buffer) >= 2) => Returned("TooManyDevices")

(* C3, amended: every buffer all of whose records are well formed (the     *)
(* scan does not end in InvalidSize) and that holds two or more Device     *)
(* records, at any places, yields TooManyDevices - also when its first     *)
(* record is not a Device record.                                          *)
C3_TooManyDevices ==
    (Done /\ Scannable(buffer) /\ DeviceRecords(buffer) >= 2) =>
        Returned("TooManyDevices")

C3_Witness ==
    /\ Done /\ Returned("TooManyDevices")
    /\ Scannable(buffer) /\ DeviceRecords(buffer) = 2
    /\ KindAt(1) = "ConfigurationDescriptor"

(* The first record of the buffer is a Configuration descriptor.           *)
FirstIsConfiguration(b) ==
    /\ Records(b) # <<>>
    /\ Records(b)[1][2] = 2
    /\ Len(Records(b)[1]) >= 9

(* C4 as stated: every buffer whose first record is a Configuration        *)
(* descriptor, with one Device record later or none, yields                *)
(* DeviceWasNotFirst.                                                      *)
C4_AsStated ==
    (Done /\ FirstIsConfiguration(buffer) /\ DeviceRecords(buffer) <= 1) =>
        Returned("DeviceWasNotFirst")

(* C4, amended: every buffer all of whose records are well formed (the     *)
(* scan does not end in InvalidSize), whose first record is a              *)
(* Configuration descriptor and that holds one Device record later or      *)
(* none, yields DeviceWasNotFirst.                                         *)
C4_DeviceWasNotFirst ==
    (Done /\ Scannable(buffer) /\ FirstIsConfiguration(buffer)
          /\ DeviceRecords(buffer) <= 1) =>
        Returned("DeviceWasNotFirst")

C4_Witness ==
    /\ Done /\ Returned("DeviceWasNotFirst")
    /\ Scannable(buffer) /\ FirstIsConfiguration(buffer)
    /\ DeviceRecords(buffer) = 1

-----------------------------------------------------------------------------
(* The records of a parsed buffer by their place in the scanned sequence.  *)

Positions == 1..Len(result)

IsMarker(i) == KindAt(i) \in {"InterfaceDescriptor", "ConfigurationDescriptor"}

(* An Interface record with a Configuration record somewhere before it.    *)
InterfaceKept(i) ==
    /\ KindAt(i) = "InterfaceDescriptor"
    /\ \E c \in 1..(i - 1) : KindAt(c) = "ConfigurationDescriptor"

(* An Endpoint record with a kept Interface record before it and no        *)
(* Configuration record in between.                                        *)
EndpointKept(p) ==
    /\ KindAt(p) = "EndpointDescriptor"
    /\ \E j \in 1..(p - 1) :
          /\ InterfaceKept(j)
          /\ \A q \in j..p : KindAt(q) # "ConfigurationDescriptor"

KeptInterfaces == SelectSeq([i \in Positions |-> i], InterfaceKept)

(* The place of the first Interface or Configuration record after place i, *)
(* or one past the end.                                                    *)
NextMarker(i) ==
    LET later == {j \in (i + 1)..Len(result) : IsMarker(j)} IN
    IF later = {} THEN Len(result) + 1
    ELSE CHOOSE j \in later : \A q \in later : j <= q

EndpointsAfter(i) ==
    LET run == SubSeq(result, i + 1, NextMarker(i) - 1)
        eps == SelectSeq(run, LAMBDA d : d.kind = "EndpointDescriptor")
    IN  [e \in 1..Len(eps) |-> eps[e].v]

AllInterfaces(tree) ==
    Flatten([c \in 1..Len(tree.configurations) |-> tree.configurations[c].interfaces])

AllEndpoints(tree) ==
    Flatten([i \in 1..Len(AllInterfaces(tree)) |-> AllInterfaces(tree)[i].endpoints])

WithoutOther(descriptors) == SelectSeq(descriptors, LAMBDA d : d.kind # "Other")

(* C5: in a returned tree the endpoints of each InterfaceTree are exactly  *)
(* the Endpoint records after its Interface record up to the next          *)
(* Interface or Configuration record (or the end), in buffer order; the    *)
(* records with unrecognized tags are left out, and the tree is the one    *)
(* the same records give with those taken away.                            *)
C5_EndpointsOfInterface ==
    Succeeded =>
        LET F == AllInterfaces(ret.v) IN
        /\ Len(F) = Len(KeptInterfaces)
        /\ \A r \in 1..Len(F) :
              /\ F[r].desc = result[KeptInterfaces[r]].v
              /\ F[r].endpoints = EndpointsAfter(KeptInterfaces[r])
        /\ DeviceTree_from_descriptors(WithoutOther(result)) = ret

C5_Witness ==
    /\ Succeeded
    /\ gen.family = "mixed" /\ gen.kinds = <<"C", "I", "E", "O", "E">>
    /\ Len(ret.v.configurations[1].interfaces[1].endpoints) = 2
    /\ ret.v.configurations[1].interfaces[1].endpoints[2].bEndpointAddress = 133

(* How many times a value occurs in a sequence.                            *)
Count(seq, v) == Cardinality({i \in 1..Len(seq) : seq[i] = v})

(* C10: records before the first marker of their parent level are dropped  *)
(* without error.  In a returned tree the InterfaceTree nodes are, value   *)
(* for value and as many times, the Interface records that have a          *)
(* Configuration record before them, and the endpoint nodes are the        *)
(* Endpoint records that have such an Interface record before them in      *)
(* their configuration; an Interface or Endpoint record before the first   *)
(* Configuration record, and an Endpoint record between a Configuration    *)
(* record and its first Interface record, is in no node.  A Device record  *)
(* followed by well-formed records in any order parses without error.      *)
C10_LeadingRecordsDropped ==
    /\ (Done /\ gen.family = "mixed") => ret.tag = "Ok"
    /\ Succeeded =>
        LET ifs == AllInterfaces(ret.v)
            eps == AllEndpoints(ret.v)
            descs == [r \in 1..Len(ifs) |-> ifs[r].desc]
        IN
        /\ Len(ifs) = Cardinality({i \in Positions : InterfaceKept(i)})
        /\ Len(eps) = Cardinality({p \in Positions : EndpointKept(p)})
        /\ \A i \in Positions :
              KindAt(i) = "InterfaceDescriptor" =>
                 Count(descs, result[i].v) =
                    Cardinality({j \in Positions :
                        InterfaceKept(j) /\ result[j].v = result[i].v})
        /\ \A p \in Positions :
              KindAt(p) = "EndpointDescriptor" =>
                 Count(eps, result[p].v) =
                    Cardinality({q \in Positions :
                        EndpointKept(q) /\ result[q].v = result[p].v})

C10_Witness ==
    /\ Succeeded
    /\ gen.family = "mixed" /\ gen.kinds = <<"E", "C", "E", "I", "E">>
    /\ Len(AllEndpoints(ret.v)) = 1
    /\ AllEndpoints(ret.v)[1].bEndpointAddress = 133

-----------------------------------------------------------------------------
(* Specification of the device handle: any sequence of descriptors(),      *)
(* claim_endpoint() and claim_interface() calls on one UsbDevice.          *)

MaxDevTail == 3    \* records after the Device record of a device file
MaxCalls == 2      \* public calls made on one handle

(* Device files: a Device record followed by Configuration ("C"),          *)
(* Interface ("I", numbered by its place) and Endpoint records ("A" with   *)
(* address 0x81, "B" with address 0x02).                                   *)
DevKinds == {"C", "I", "A", "B"}

DevRecord(kind, j) ==
    CASE kind = "C" -> EncodeConfiguration(ConfigurationFields(j, 1, 9))
      [] kind = "I" -> EncodeInterface(InterfaceFields(j, 1))
      [] kind = "A" -> EncodeEndpoint(EndpointFields(129))
      [] kind = "B" -> EncodeEndpoint(EndpointFields(2))

DevFile(kinds) ==
    EncodeDevice(DeviceFields(1))
    \o Flatten([j \in 1..Len(kinds) |-> DevRecord(kinds[j], j)])

(* Longer device files: two interfaces with the same endpoint address, an  *)
(* endpoint of the second configuration only; and malformed ones.          *)
PickedFiles ==
    {DevFile(<<"C", "I", "A", "I", "A", "B">>),
     DevFile(<<"C", "I", "A", "C", "I", "B">>),
     DevFile(<<"C", "I", "B", "I", "A">>),
     <<>>,
     EncodeDevice(DeviceFields(1)) \o <<9, 2, 9>>,
     EncodeConfiguration(ConfigurationFields(1, 0, 9))}

DeviceFiles == {DevFile(kinds) : kinds \in SeqsUpTo(DevKinds, MaxDevTail)} \cup PickedFiles

(* What a read through a descriptor number that was closed may yield if    *)
(* the process has opened another file under that number since.            *)
ReusedFiles == {<<>>, DevFile(<<"C", "I", "B">>)}

EndpointAddresses == {129, 2, 1}
InterfaceNumbers == {0, 7}

NoParse ==
    /\ buffer = <<>>
    /\ data = <<>>
    /\ result = <<>>
    /\ iters = 0
    /\ pc = "idle"
    /\ ret = Pending
    /\ gen = [family |-> "device"]

DevInit ==
    /\ file \in DeviceFiles
    /\ descriptor_cache = None
    /\ fd_open = TRUE
    /\ reads = 0
    /\ parses = 0
    /\ ncalls = 0
    /\ last = [op |-> "none"]
    /\ NoParse

(* The I/O a descriptors() call may meet: on the open device file any      *)
(* outcome, reading the file; on a descriptor closed by an earlier failed  *)
(* call the seek fails, unless the number names another file by now.       *)
IoChoices ==
    IF fd_open
    THEN {[io |-> o, content |-> file] : o \in IoOutcomes}
    ELSE {[io |-> "rewind_err", content |-> <<>>]}
         \cup {[io |-> o, content |-> f] : o \in IoOutcomes, f \in ReusedFiles}

(* UsbDevice::descriptors()                                                *)
Descriptors ==
    /\ ncalls < MaxCalls
    /\ \E c \in IoChoices :
          LET d == DescriptorsCall(descriptor_cache, fd_open, c.io, c.content) IN
          /\ descriptor_cache' = d.cache
          /\ fd_open' = d.fd_open
          /\ reads' = reads + d.read
          /\ parses' = parses + d.parsed
          /\ last' = [op |-> "descriptors", ret |-> d.ret, cached |-> d.cached,
                      ioctls |-> <<>>]
    /\ ncalls' = ncalls + 1
    /\ UNCHANGED file
    /\ UNCHANGED parserVars

(* UsbDevice::claim_endpoint(endpoint_address)                             *)
ClaimEndpoint ==
    /\ ncalls < MaxCalls
    /\ \E c \in IoChoices :
          LET d == DescriptorsCall(descriptor_cache, fd_open, c.io, c.content) IN
          /\ descriptor_cache' = d.cache
          /\ fd_open' = d.fd_open
          /\ reads' = reads + d.read
          /\ parses' = parses + d.parsed
          /\ \E endpoint_address \in EndpointAddresses, errno \in Errnos :
                LET r == IF d.ret.tag = "Err"
                         THEN [ioctls |-> <<>>, ret |-> d.ret]
                         ELSE ClaimEndpointCall(d.ret.v, endpoint_address, errno)
                IN  last' = [op |-> "claim_endpoint", arg |-> endpoint_address,
                             ret |-> r.ret, cached |-> d.cached, ioctls |-> r.ioctls]
    /\ ncalls' = ncalls + 1
    /\ UNCHANGED file
    /\ UNCHANGED parserVars

(* UsbDevice::claim_interface(interface)                                   *)
ClaimInterface ==
    /\ ncalls < MaxCalls
    /\ \E interface \in InterfaceNumbers, errno \in Errnos :
          LET r == ClaimInterfaceCall(interface, errno) IN
          last' = [op |-> "claim_interface", arg |-> interface,
                   ret |-> r.ret, cached |-> FALSE, ioctls |-> r.ioctls]
    /\ ncalls' = ncalls + 1
    /\ UNCHANGED <<file, descriptor_cache, fd_open, reads, parses>>
    /\ UNCHANGED parserVars

DevNext == Descriptors \/ ClaimEndpoint \/ ClaimInterface

DevSpec == DevInit /\ [][DevNext]_vars

-----------------------------------------------------------------------------
C6_Step ==
    /\ descriptor_cache.tag = "Some" =>
          /\ descriptor_cache' = descriptor_cache
          /\ reads' = reads
          /\ parses' = parses
          /\ last'.op = "descriptors" =>
                last'.cached /\ last'.ret = Ok(descriptor_cache.v)
    /\ (descriptor_cache.tag = "None" /\ descriptor_cache'.tag = "Some") =>
          /\ reads' = reads + 1
          /\ parses' = parses + 1
          /\ last'.op = "descriptors" => last'.ret = Ok(descriptor_cache'.v)
    /\ (descriptor_cache.tag = "None" /\ last'.op = "descriptors"
            /\ descriptor_cache'.tag = "None") =>
          /\ last'.ret.tag = "Err"
          /\ ~last'.cached

OwnersIn(configurations, endpoint_address) ==
    {configurations[c].interfaces[i].desc.bInterfaceNumber :
        <<c, i>> \in {x \in (1..Len(configurations)) \X (1..3) :
                        /\ x[2] <= Len(configurations[x[1]].interfaces)
                        /\ HasEndpoint(configurations[x[1]].interfaces[x[2]],
                                       endpoint_address)}}

ClaimIssued(n) ==
    \E k \in 1..Len(last.ioctls) :
        last.ioctls[k] = [code |-> "USBDEVFS_CLAIMINTERFACE", ifno |-> n]

NothingClaimed == last.ioctls = <<>>

(* A claim_endpoint call has just returned and its descriptors() gave the  *)
(* tree now in the cache.                                                  *)
ClaimEndpointRan == last.op = "claim_endpoint" /\ descriptor_cache.tag = "Some"

(* C8 as stated: whenever the tree holds an endpoint with the address,     *)
(* claim_endpoint issues the claim for the number of an interface that     *)
(* lists it; when no endpoint of the tree has the address it returns       *)
(* InvalidEndpoint and claims nothing.                                     *)
C8_AsStated ==
    ClaimEndpointRan =>
        LET owners == OwnersIn(descriptor_cache.v.configurations, last.arg) IN
        IF owners # {}
        THEN \E n \in owners : ClaimIssued(n)
        ELSE last.ret = Err("InvalidEndpoint") /\ NothingClaimed

(* C8, amended: claim_endpoint searches the first configuration of the     *)
(* tree only.  Whenever an interface of the first configuration lists an   *)
(* endpoint with the address, the driver-disconnect and the claim ioctl    *)
(* are issued for the bInterfaceNumber of the first such interface in      *)
(* buffer order, and for no other; when the tree has no configuration or   *)
(* no endpoint of its first configuration has the address, the call        *)
(* returns InvalidEndpoint and claims nothing, even if an endpoint of a    *)
(* later configuration has the address.                                    *)
C8_ClaimsOwnerInFirstConfiguration ==
    ClaimEndpointRan =>
        LET confs == descriptor_cache.v.configurations
            ifs == IF confs = <<>> THEN <<>> ELSE confs[1].interfaces
            hit(i) == HasEndpoint(ifs[i], last.arg)
        IN
        IF \E i \in 1..Len(ifs) : hit(i)
        THEN \E i \in 1..Len(ifs) :
                /\ hit(i)
                /\ \A j \in 1..(i - 1) : ~hit(j)
                /\ last.ioctls =
                     <<[code |-> "USBDEVFS_IOCTL(DISCONNECT)",
                        ifno |-> ifs[i].desc.bInterfaceNumber],
                       [code |-> "USBDEVFS_CLAIMINTERFACE",
                        ifno |-> ifs[i].desc.bInterfaceNumber]>>
        ELSE last.ret = Err("InvalidEndpoint") /\ NothingClaimed

C8_Witness ==
    /\ ClaimEndpointRan
    /\ Len(descriptor_cache.v.configurations) = 1
    /\ Len(descriptor_cache.v.configurations[1].interfaces) = 2
    /\ HasEndpoint(descriptor_cache.v.configurations[1].interfaces[1], last.arg)
    /\ HasEndpoint(descriptor_cache.v.configurations[1].interfaces[2], last.arg)
    /\ ClaimIssued(descriptor_cache.v.configurations[1].interfaces[1].desc.bInterfaceNumber)
    /\ last.ret.tag = "Ok"

=============================================================================
